---------------------------- MODULE Spec2Model ----------------------------
(***************************************************************************)
(* A model of python/plotter.py: the script that reads results.csv, groups *)
(* its rows by experiment, picks the swept column of every group, sorts    *)
(* the group along it and saves one chart per (experiment, metric).        *)
(*                                                                         *)
(* A DataFrame is a sequence of rows (functions from the present column    *)
(* names to values) together with the set of its column names.  Numeric    *)
(* cells are integers, with NaN standing for a missing cell; policy and    *)
(* trace cells are strings, a missing one being "nan" (read_csv never      *)
(* yields the text "nan": it parses it as missing).  Experiment tags,      *)
(* file names and everything safe_name handles are sequences of            *)
(* one-character strings, so that the per-character conversion is          *)
(* computed, not assumed.                                                  *)
(***************************************************************************)
EXTENDS Integers, Sequences, FiniteSets, TLC

VARIABLES
    df,           \* the table read from CSV_PATH: a sequence of rows
    columns,      \* df.columns
    pc,           \* position in the script: "start", "loop", "metrics", "done"
    experiments,  \* the list the experiment loop iterates over
    ei,           \* index in experiments of the experiment being processed
    mi,           \* index in METRICS of the metric being processed
    xcol,         \* the axis picked for the current group (None outside one)
    context,      \* the context parts kept for the current group's titles
    console,      \* everything printed so far, one entry per print call
    saved         \* every plt.savefig call so far, in call order

vars == <<df, columns, pc, experiments, ei, mi, xcol, context, console, saved>>

-----------------------------------------------------------------------------
(* Bounds of the model *)

\* The most rows of a table all of whose rows carry the same experiment tag.
MaxRows == 3

\* The most rows of a table whose rows carry tags of their own.
MaxTaggedRows == 4

-----------------------------------------------------------------------------
(* Constants of the script *)

CANDIDATE_X ==
    << "cache_kb", "working_set_kb", "assoc", "line_size",
       "stride_bytes", "miss_penalty", "hit_latency", "policy" >>

METRICS == << "miss_rate", "amat" >>

context_cols ==
    << "cache_kb", "line_size", "assoc", "hit_latency",
       "miss_penalty", "policy", "trace" >>

order == << "LRU", "FIFO", "RANDOM" >>

OUT_DIR == "python/plots/"

None == "None"

\* A missing numeric cell (float NaN); every real value of the model is >= 1.
NaN == -1

\* A missing string cell, and what astype(str) shows for it.
StrNaN == "nan"

Range(s) == { s[i] : i \in DOMAIN s }

AllColumns ==
    {"experiment", "trace"} \cup Range(CANDIDATE_X) \cup Range(METRICS)

-----------------------------------------------------------------------------
(* Characters and strings *)

\* The characters of the model in code-point order (a subset of ASCII).
Alphabet ==
    << " ", "-", ".", "/", "0", "1", "2", "3", "4", "5", "6", "7", "8", "9",
       "_", "a", "b", "c", "d", "e", "f", "g", "h", "i", "j", "k", "l", "m",
       "n", "o", "p", "q", "r", "s", "t", "u", "v", "w", "x", "y", "z" >>

Ord(ch) == CHOOSE k \in DOMAIN Alphabet : Alphabet[k] = ch

isalnum(ch) == Ord(ch) \in (Ord("0") .. Ord("9")) \cup (Ord("a") .. Ord("z"))

\* Python's str order: lexicographic by code point, a proper prefix first.
StrLess(s, t) ==
    \E k \in 1 .. (Len(t)) :
        /\ \A j \in 1 .. (k - 1) : j <= Len(s) /\ s[j] = t[j]
        /\ k - 1 <= Len(s)
        /\ \/ k = Len(s) + 1
           \/ k <= Len(s) /\ Ord(s[k]) < Ord(t[k])

\* str.contains(sub): sub occurs in s as a substring
Contains(s, sub) ==
    \E k \in 1 .. (Len(s) - Len(sub) + 1) :
        SubSeq(s, k, k + Len(sub) - 1) = sub

Baseline == << "b", "a", "s", "e", "l", "i", "n", "e" >>

MetricChars(metric) ==
    IF metric = "miss_rate"
    THEN << "m", "i", "s", "s", "_", "r", "a", "t", "e" >>
    ELSE << "a", "m", "a", "t" >>

-----------------------------------------------------------------------------
(* The tables the run is given *)

\* Experiment tags of the model: with a space, with a slash, and one that the
\* baseline dump matches.
ExpNames == { << "a", " ", "b" >>, << "a", "/", "b" >>, Baseline }

PolicyVals == { "LRU", "FIFO", "RANDOM", "MRU", StrNaN }

NumVals == { NaN, 1, 2 }

\* The values a cell of column c may hold when the column is left free.
Dom(c) ==
    IF c = "experiment" THEN ExpNames
    ELSE IF c = "policy" THEN PolicyVals
    ELSE NumVals

\* The value of a column that does not change over the table.
Default(c) ==
    IF c = "experiment" THEN << "a", " ", "b" >>
    ELSE IF c = "policy" THEN "LRU"
    ELSE IF c = "trace" THEN "t1"
    ELSE 1

\* The value in row i of a column that is swept from row to row.
Swept(c, i) ==
    IF c = "policy" THEN << "FIFO", "RANDOM", "LRU", "MRU" >>[((i - 1) % 4) + 1]
    ELSE IF c = "trace" THEN << "t1", "t2" >>[((i - 1) % 2) + 1]
    ELSE i

\* A table shape: one column whose cells are free, columns swept from row
\* to row, absent columns; every other column is constant.
FreeCols == {"experiment"} \cup Range(CANDIDATE_X)

SweptSets == { {}, {"assoc"}, {"trace"}, {"miss_rate", "amat"} }

AbsentSets ==
    { {}, {"amat"}, {"miss_rate"}, {"line_size", "assoc", "hit_latency"},
      Range(context_cols) }

\* The free columns that are combined with swept and absent columns; any
\* other free column comes in a table whose other columns are all constant.
VariedCols == { "experiment", "cache_kb", "stride_bytes", "policy" }

Shapes ==
    { sh \in [ free : FreeCols, swept : SweptSets, absent : AbsentSets ] :
        /\ sh.free \notin sh.swept \cup sh.absent
        /\ sh.swept = {} \/ sh.absent = {}
        /\ sh.free \in VariedCols \/ (sh.swept = {} /\ sh.absent = {}) }

RowBound(sh) == IF sh.free = "experiment" THEN MaxTaggedRows ELSE MaxRows

MakeRow(sh, i, v) ==
    [ c \in AllColumns \ sh.absent |->
        IF c = sh.free THEN v
        ELSE IF c \in sh.swept THEN Swept(c, i)
        ELSE Default(c) ]

-----------------------------------------------------------------------------
(* pandas operations used by the script *)

\* d[c].nunique(dropna=False): a missing value counts as a value of its own
nunique(d, c) == Cardinality({ d[i][c] : i \in DOMAIN d })

\* df["experiment"].unique(): the distinct tags in order of first appearance
RECURSIVE unique(_)
unique(tags) ==
    IF tags = << >> THEN << >>
    ELSE LET rest == unique(SubSeq(tags, 1, Len(tags) - 1))
             last == tags[Len(tags)]
         IN  IF last \in Range(rest) THEN rest ELSE Append(rest, last)

\* sorted() left out: the list stays in its input order.
sorted_missing(names) == names

\* sorted(list of str): insertion into an ascending list, element by element
RECURSIVE sorted(_)
sorted(names) ==
    IF names = << >> THEN << >>
    ELSE LET rest == sorted(SubSeq(names, 1, Len(names) - 1))
             x == names[Len(names)]
             k == Cardinality({ j \in DOMAIN rest : ~ StrLess(x, rest[j]) })
         IN  SubSeq(rest, 1, k) \o << x >> \o SubSeq(rest, k + 1, Len(rest))

\* df[df["experiment"] == exp]: the rows of one experiment, in table order
Group(table, exp) == SelectSeq(table, LAMBDA r : r["experiment"] = exp)

\* d.sort_values(col) with the default kind="quicksort" and na_position=
\* "last": the rows in ascending key order, rows with a missing key after
\* all others in their input order.  quicksort is not a stable sort, so the
\* relative order of rows with equal keys is any order.  keys[i] is the
\* sort key of row i (NaN when missing).
sort_values(d, keys) ==
    { [ i \in DOMAIN d |-> d[p[i]] ] :
        p \in { q \in Permutations(DOMAIN d) :
                  \A i, j \in DOMAIN d :
                      i < j =>
                          /\ keys[q[j]] # NaN => keys[q[i]] # NaN
                          /\ keys[q[i]] # NaN /\ keys[q[j]] # NaN
                                => keys[q[i]] <= keys[q[j]]
                          /\ keys[q[i]] = NaN => q[i] < q[j] } }

-----------------------------------------------------------------------------
(* The functions of the script *)

\* pick_x_column with the candidates scanned from the last to the first.
pick_x_column_reversed(d, cols) ==
    LET RECURSIVE scan(_)
        scan(k) ==
            IF k = 0 THEN None
            ELSE IF CANDIDATE_X[k] \in cols /\ nunique(d, CANDIDATE_X[k]) > 1
                 THEN CANDIDATE_X[k]
                 ELSE scan(k - 1)
    IN  scan(Len(CANDIDATE_X))

\* pick_x_column with nunique >= 1 in place of nunique > 1.
pick_x_column_any(d, cols) ==
    LET RECURSIVE scan(_)
        scan(k) ==
            IF k > Len(CANDIDATE_X) THEN None
            ELSE IF CANDIDATE_X[k] \in cols /\ nunique(d, CANDIDATE_X[k]) >= 1
                 THEN CANDIDATE_X[k]
                 ELSE scan(k + 1)
    IN  scan(1)

\* pick_x_column(d), cols being d.columns: the nunique dict over the present
\* candidates, then the scan of CANDIDATE_X in priority order.
pick_x_column(d, cols) ==
    LET counts == [ c \in Range(CANDIDATE_X) \cap cols |-> nunique(d, c) ]
        RECURSIVE scan(_)
        scan(k) ==
            IF k > Len(CANDIDATE_X) THEN None
            ELSE IF CANDIDATE_X[k] \in DOMAIN counts /\ counts[CANDIDATE_X[k]] > 1
                 THEN CANDIDATE_X[k]
                 ELSE scan(k + 1)
    IN  scan(1)

is_categorical_x(x) == x = "policy"

\* pd.Categorical(values, categories=order): a value outside the categories
\* becomes missing.
Categorical(v) == IF v \in Range(order) THEN v ELSE StrNaN

\* The sort key of a policy cell after line 48.  The assignment through
\* d.loc[:, "policy"] either replaces the column by the categorical (pandas
\* before 2.0: the key is the position in order) or writes the categorical's
\* values into the existing object column (pandas 2.0 and later: the key is
\* the str order, "FIFO" < "LRU" < "RANDOM").
PolicyKey(v, inplace) ==
    IF v = StrNaN THEN NaN
    ELSE IF inplace
         THEN CHOOSE k \in 1 .. 3 : << "FIFO", "LRU", "RANDOM" >>[k] = v
         ELSE CHOOSE k \in DOMAIN order : order[k] = v

\* stable_sort without the sort: the frame comes back in input order.
stable_sort_unsorted(d, x, cols, inplace) == { d }

\* stable_sort(d, xcol): the frames the call can return.
stable_sort(d, x, cols, inplace) ==
    IF x = "policy"
    THEN LET dc == IF "policy" \in cols
                   THEN [ i \in DOMAIN d |->
                            [ d[i] EXCEPT !["policy"] = Categorical(@) ] ]
                   ELSE d
         IN  sort_values(dc, [ i \in DOMAIN dc |-> PolicyKey(dc[i]["policy"], inplace) ])
    ELSE sort_values(d, [ i \in DOMAIN d |-> d[i][x] ])

\* safe_name(s)
safe_name(s) ==
    [ i \in DOMAIN s |->
        IF isalnum(s[i]) \/ s[i] \in {"-", "_"} THEN s[i] ELSE "_" ]

\* OUT_DIR / f"{safe_name(exp)}_{metric}.png"
outpath(exp, metric) ==
    << OUT_DIR >> \o safe_name(exp) \o << "_" >> \o MetricChars(metric)
        \o << ".", "p", "n", "g" >>

\* The context parts of a group: one (column, value) part per column of
\* context_cols that is present, constant in the group and not the axis.
context_parts(d, cols, x) ==
    LET RECURSIVE build(_)
        build(k) ==
            IF k = 0 THEN << >>
            ELSE LET c == context_cols[k]
                 IN  IF c \in cols /\ nunique(d, c) = 1 /\ c # x
                     THEN Append(build(k - 1), << c, d[1][c] >>)
                     ELSE build(k - 1)
    IN  build(Len(context_cols))

\* The join without the [:4] slice.
JoinAll(parts) == parts

\* context = ", ".join(context_parts[:4])
JoinFirst4(parts) == SubSeq(parts, 1, IF Len(parts) < 4 THEN Len(parts) ELSE 4)

xlabel(x) ==
    CASE x = "cache_kb" -> "Cache size (KB)"
      [] x = "working_set_kb" -> "Working set (KB)"
      [] x = "assoc" -> "Associativity (ways)"
      [] x = "line_size" -> "Line size (bytes)"
      [] x = "stride_bytes" -> "Stride (bytes)"
      [] x = "miss_penalty" -> "Miss penalty (cycles)"
      [] x = "hit_latency" -> "Hit latency (cycles)"
      [] x = "policy" -> "Replacement policy"
      [] OTHER -> x

\* title: the parenthetical is there only when context is a non-empty string
Title(exp, metric, x, ctx) ==
    [ exp |-> exp, metric |-> metric, xcol |-> x,
      paren |-> IF ctx # << >> THEN << ctx >> ELSE << >> ]

\* What one plot_line / plot_bar call hands to matplotlib and savefig.
Chart(kind, sortedRows, x, ycol, title, path) ==
    [ kind |-> kind,
      x |-> [ i \in DOMAIN sortedRows |-> sortedRows[i][x] ],
      y |-> [ i \in DOMAIN sortedRows |-> sortedRows[i][ycol] ],
      title |-> title, xlabel |-> xlabel(x), ylabel |-> ycol, path |-> path ]

-----------------------------------------------------------------------------
(* The run *)

Init ==
    /\ \E sh \in Shapes : \E n \in 0 .. RowBound(sh) :
         \E vals \in [ 1 .. n -> Dom(sh.free) ] :
            /\ df = [ i \in 1 .. n |-> MakeRow(sh, i, vals[i]) ]
            /\ columns = AllColumns \ sh.absent
    /\ pc = "start"
    /\ experiments = << >>
    /\ ei = 0
    /\ mi = 0
    /\ xcol = None
    /\ context = << >>
    /\ console = << >>
    /\ saved = << >>

\* The experiment and the group the loop is at.
exp == experiments[ei]

CurGroup == Group(df, exp)

\* Lines 80-89: the optional baseline dump, then the list of experiments.
Start ==
    /\ pc = "start"
    /\ LET base == SelectSeq(df, LAMBDA r : Contains(r["experiment"], Baseline))
       IN  console' = IF "experiment" \in columns /\ base # << >>
                      THEN console \o << << "baseline", base >> >>
                      ELSE console
    /\ experiments' = sorted(unique([ i \in DOMAIN df |-> df[i]["experiment"] ]))
    /\ ei' = 1
    /\ pc' = "loop"
    /\ UNCHANGED << df, columns, mi, xcol, context, saved >>

\* Lines 91-99: a group in which no candidate column varies is skipped.
\* (The d.empty test of line 93 never succeeds: exp is a tag of some row.)
SkipGroup ==
    /\ pc = "loop"
    /\ ei <= Len(experiments)
    /\ CurGroup # << >>
    /\ pick_x_column(CurGroup, columns) = None
    /\ xcol' = None
    /\ console' = Append(console, << "skip", exp >>)
    /\ ei' = ei + 1
    /\ UNCHANGED << df, columns, pc, experiments, mi, context, saved >>

\* Lines 96-126: the axis, the context and the label of a group with an axis.
SelectAxis ==
    /\ pc = "loop"
    /\ ei <= Len(experiments)
    /\ CurGroup # << >>
    /\ pick_x_column(CurGroup, columns) # None
    /\ xcol' = pick_x_column(CurGroup, columns)
    /\ context' = JoinFirst4(context_parts(CurGroup, columns, xcol'))
    /\ mi' = 1
    /\ pc' = "metrics"
    /\ UNCHANGED << df, columns, experiments, ei, console, saved >>

\* The end of one iteration of the metric loop; after the last metric the
\* experiment loop moves on (xcol and context keep their values until the
\* next group assigns them).
NextMetric ==
    /\ IF mi < Len(METRICS)
       THEN /\ mi' = mi + 1
            /\ UNCHANGED << pc, ei >>
       ELSE /\ mi' = 0
            /\ pc' = "loop"
            /\ ei' = ei + 1
    /\ UNCHANGED << xcol, context >>

\* Lines 129-130: a metric whose column is absent is passed over.
MissingMetric ==
    /\ pc = "metrics"
    /\ METRICS[mi] \notin columns
    /\ NextMetric
    /\ UNCHANGED << df, columns, experiments, console, saved >>

\* plot_line / plot_bar: sort, draw, savefig, print.
Plot(kind) ==
    \E inplace \in BOOLEAN :
      \E s \in stable_sort(CurGroup, xcol, columns, inplace) :
        LET path == outpath(exp, METRICS[mi])
            title == Title(exp, METRICS[mi], xcol, context)
        IN  /\ saved' = Append(saved, Chart(kind, s, xcol, METRICS[mi], title, path))
            /\ console' = Append(console, << "wrote", path >>)

\* Lines 132-141 with a numeric axis.
PlotLine ==
    /\ pc = "metrics"
    /\ METRICS[mi] \in columns
    /\ ~ is_categorical_x(xcol)
    /\ Plot("line")
    /\ NextMetric
    /\ UNCHANGED << df, columns, experiments >>

\* Lines 132-141 with the categorical axis.
PlotBar ==
    /\ pc = "metrics"
    /\ METRICS[mi] \in columns
    /\ is_categorical_x(xcol)
    /\ Plot("bar")
    /\ NextMetric
    /\ UNCHANGED << df, columns, experiments >>

\* Line 143: the loop is over.
Finish ==
    /\ pc = "loop"
    /\ ei > Len(experiments)
    /\ console' = Append(console, << "done", OUT_DIR >>)
    /\ pc' = "done"
    /\ UNCHANGED << df, columns, experiments, ei, mi, xcol, context, saved >>

Next ==
    \/ Start
    \/ SkipGroup
    \/ SelectAxis
    \/ MissingMetric
    \/ PlotLine
    \/ PlotBar
    \/ Finish

Spec == Init /\ [][Next]_vars

-----------------------------------------------------------------------------
(* Vocabulary of the properties *)

Tags == { df[i]["experiment"] : i \in DOMAIN df }

\* Column c is present and takes two different values in d.
Varies(d, c, cols) == c \in cols /\ \E i, j \in DOMAIN d : d[i][c] # d[j][c]

Index(seq, v) == CHOOSE k \in DOMAIN seq : seq[k] = v

\* The reorderings of the rows of d.
Reorderings(d) ==
    { [ i \in DOMAIN d |-> d[p[i]] ] : p \in Permutations(DOMAIN d) }

HasAxis(e) == \E c \in Range(CANDIDATE_X) : Varies(Group(df, e), c, columns)

\* The chart of the most recent savefig call.
LastChart == saved[Len(saved)]

ChartsOf(e) == { i \in DOMAIN saved : saved[i].title.exp = e }

-----------------------------------------------------------------------------
(* C1: for every non-empty experiment group, pick_x_column returns the first *)
(* column of CANDIDATE_X that is present and takes more than one distinct    *)
(* value (a missing value being a value); the result is the same for every   *)
(* reordering of the group's rows; the axis is categorical exactly when the  *)
(* column is policy, which is returned only when every other present         *)
(* candidate is constant.  The axis the run holds for a group is that one.   *)
(* (The function is looked at where the loop applies it, once per group.)    *)

FirstVaryingIs(d, cols, r) ==
    /\ r \in Range(CANDIDATE_X)
    /\ Varies(d, r, cols)
    /\ \A k \in 1 .. (Index(CANDIDATE_X, r) - 1) : ~ Varies(d, CANDIDATE_X[k], cols)

\* C1: pick_x_column returns the first present candidate that varies, for
\* every reordering of the rows; the chart is a bar chart exactly for policy,
\* which is picked only when no other candidate varies.
C1_PickFirstVarying ==
    /\ (pc = "loop" /\ ei <= Len(experiments)) =>
         LET d == CurGroup
             r == pick_x_column(d, columns)
         IN  /\ HasAxis(exp) => FirstVaryingIs(d, columns, r)
             /\ \A d2 \in Reorderings(d) : pick_x_column(d2, columns) = r
             /\ is_categorical_x(r) <=> r = CANDIDATE_X[Len(CANDIDATE_X)]
             /\ r = "policy" =>
                    \A c \in Range(CANDIDATE_X) \ {"policy"} : ~ Varies(d, c, columns)
    /\ pc = "metrics" => FirstVaryingIs(CurGroup, columns, xcol)
    /\ saved # << >> =>
         /\ FirstVaryingIs(Group(df, LastChart.title.exp), columns, LastChart.title.xcol)
         /\ LastChart.kind = "bar" <=> LastChart.title.xcol = "policy"

\* A group is being plotted along a column although a later candidate varies
\* too and an earlier one is present.
C1_Witness ==
    /\ pc = "metrics"
    /\ \E k \in DOMAIN CANDIDATE_X :
         /\ Index(CANDIDATE_X, xcol) < k
         /\ Varies(CurGroup, CANDIDATE_X[k], columns)
    /\ \E k \in DOMAIN CANDIDATE_X :
         /\ k < Index(CANDIDATE_X, xcol)
         /\ CANDIDATE_X[k] \in columns

-----------------------------------------------------------------------------
(* C5: for every group in which no candidate column varies, every group of   *)
(* one row included, pick_x_column returns None; the run prints one skip     *)
(* line for the group, saves no chart for it, is never stuck at it, and      *)
(* still plots every other group.                                            *)

C5_ConstantGroupSkipped ==
    /\ \A e \in Tags :
         LET d == Group(df, e)
         IN  /\ ~ HasAxis(e) => pick_x_column(d, columns) = None
             /\ Len(d) = 1 => pick_x_column(d, columns) = None
    /\ (pc = "loop" /\ ei <= Len(experiments) /\ ~ HasAxis(exp)) => ENABLED SkipGroup
    /\ \A k \in DOMAIN experiments :
         (k < ei /\ ~ HasAxis(experiments[k])) =>
            /\ Cardinality({ i \in DOMAIN console :
                               console[i] = << "skip", experiments[k] >> }) = 1
            /\ ChartsOf(experiments[k]) = {}
    /\ pc = "done" =>
         \A e \in Tags : \A m \in Range(METRICS) :
            (HasAxis(e) /\ m \in columns) =>
                \E i \in ChartsOf(e) : saved[i].title.metric = m

\* The run is over; it skipped a one-row group and plotted a group after it.
C5_Witness ==
    /\ pc = "done"
    /\ \E i, j \in DOMAIN console :
         /\ i < j
         /\ console[i][1] = "skip"
         /\ Len(Group(df, console[i][2])) = 1
         /\ console[j][1] = "wrote"

-----------------------------------------------------------------------------
(* C6: the context used in a chart's title has at most 4 entries, has no     *)
(* entry for the axis, holds only columns of context_cols that are present   *)
(* and constant in the group, with the value they have there, and these are  *)
(* the first 4 such columns in context_cols order; an empty context leaves   *)
(* the title without a parenthetical.                                        *)

\* Column c qualifies for the context of group d plotted along x.
Qualifies(d, c, x) ==
    /\ c \in columns
    /\ c # x
    /\ \A i, j \in DOMAIN d : d[i][c] = d[j][c]

QualifiedBefore(d, c, x) ==
    { k \in 1 .. (Index(context_cols, c) - 1) : Qualifies(d, context_cols[k], x) }

ContextOk(d, x, ctx) ==
    /\ Len(ctx) <= 4
    /\ \A i \in DOMAIN ctx :
         /\ ctx[i][1] \in Range(context_cols)
         /\ ctx[i][1] # x
         /\ Qualifies(d, ctx[i][1], x)
         /\ \A r \in DOMAIN d : d[r][ctx[i][1]] = ctx[i][2]
         /\ Cardinality(QualifiedBefore(d, ctx[i][1], x)) = i - 1
    /\ \A c \in Range(context_cols) :
         (Qualifies(d, c, x) /\ Cardinality(QualifiedBefore(d, c, x)) < 4)
            => \E i \in DOMAIN ctx : ctx[i][1] = c

\* C6: the context of a title is the first 4 present constant columns of
\* context_cols other than the axis; without any the title has no
\* parenthetical.
C6_ContextBounded ==
    /\ pc = "metrics" => ContextOk(CurGroup, xcol, context)
    /\ saved # << >> =>
         LET t == LastChart.title
             d == Group(df, t.exp)
         IN  IF \E c \in Range(context_cols) : Qualifies(d, c, t.xcol)
             THEN /\ Len(t.paren) = 1
                  /\ t.paren[1] # << >>
                  /\ ContextOk(d, t.xcol, t.paren[1])
             ELSE t.paren = << >>

\* A chart was saved whose title keeps 4 context entries out of more.
C6_Witness ==
    \E i \in DOMAIN saved :
        LET t == saved[i].title
        IN  /\ Len(t.paren) = 1
            /\ Len(t.paren[1]) = 4
            /\ Cardinality({ c \in Range(context_cols) :
                               Qualifies(Group(df, t.exp), c, t.xcol) }) > 4

\* A chart was saved whose title has no parenthetical.
C6_WitnessEmpty == \E i \in DOMAIN saved : saved[i].title.paren = << >>

-----------------------------------------------------------------------------
(* C7: the points drawn by plot_line for a group with a numeric axis.        *)

\* The (x, y) points a frame gives, in row order.
Points(rows, x, ycol) == [ i \in DOMAIN rows |-> << rows[i][x], rows[i][ycol] >> ]

\* Ascending in x, the points without an x after all the others.
Ascending(xs) ==
    \A i, j \in DOMAIN xs :
        i < j => /\ xs[j] # NaN => xs[i] # NaN
                 /\ (xs[i] # NaN /\ xs[j] # NaN) => xs[i] <= xs[j]

\* Every point sequence plot_line can draw from any reordering of group d.
Drawable(d, x, ycol) ==
    UNION { { Points(s, x, ycol) : s \in stable_sort(d2, x, columns, FALSE) } :
            d2 \in Reorderings(d) }

ChartPoints(ch) == [ i \in DOMAIN ch.x |-> << ch.x[i], ch.y[i] >> ]

\* C7 as claimed: the point sequence drawn by plot_line is ascending in x and
\* is the same for every reordering of the group's rows, also when rows share
\* an axis value.  (Stated for the groups without a missing axis value.)
C7_AsClaimed ==
    \A i \in DOMAIN saved :
        (saved[i].kind = "line" /\ \A k \in DOMAIN saved[i].x : saved[i].x[k] # NaN) =>
            /\ Ascending(saved[i].x)
            /\ \A pts \in Drawable(Group(df, saved[i].title.exp),
                                   saved[i].title.xcol, saved[i].ylabel) :
                   pts = ChartPoints(saved[i])

\* Rows of d that share the value of column x share the value of column ycol.
TiesAgree(d, x, ycol) ==
    \A i, j \in DOMAIN d : d[i][x] = d[j][x] => d[i][ycol] = d[j][ycol]

\* C7 as amended: the point sequence drawn by plot_line is ascending in x
\* (points without an x last), its x sequence is the same for every
\* reordering of the group's rows, and the whole point sequence is the same
\* for every reordering when rows that share an axis value share the metric
\* value.  (Every chart is looked at while it is the one saved last and the
\* run is not over.)
C7_SortedLine ==
    (saved # << >> /\ pc # "done" /\ LastChart.kind = "line") =>
        LET d == Group(df, LastChart.title.exp)
            x == LastChart.title.xcol
            ycol == LastChart.ylabel
            agree == TiesAgree(d, x, ycol)
        IN  /\ Ascending(LastChart.x)
            /\ \A d2 \in Reorderings(d) :
                 \A s \in stable_sort(d2, x, columns, FALSE) :
                    /\ [ k \in DOMAIN s |-> s[k][x] ] = LastChart.x
                    /\ agree => Points(s, x, ycol) = ChartPoints(LastChart)

\* A line chart was saved for a group given out of order, two rows of which
\* share an axis value.
C7_Witness ==
    \E i \in DOMAIN saved :
        LET d == Group(df, saved[i].title.exp)
            x == saved[i].title.xcol
        IN  /\ saved[i].kind = "line"
            /\ ~ Ascending([ k \in DOMAIN d |-> d[k][x] ])
            /\ \E a, b \in DOMAIN d : a # b /\ d[a][x] = d[b][x] /\ d[a][x] # NaN
            /\ TiesAgree(d, x, saved[i].ylabel)

-----------------------------------------------------------------------------
(* C8: the order of the reports.                                             *)

\* The experiment a console line reports on: a skip line names it, the k-th
\* "wrote" line belongs to the k-th savefig call.
WroteUpTo(i) == Cardinality({ k \in 1 .. i : console[k][1] = "wrote" })

ReportLines == { i \in DOMAIN console : console[i][1] \in {"skip", "wrote"} }

ReportExp(i) ==
    IF console[i][1] = "skip" THEN console[i][2]
    ELSE saved[WroteUpTo(i)].title.exp

ReportMetric(i) == saved[WroteUpTo(i)].title.metric

FirstRow(e) == CHOOSE i \in DOMAIN df :
    /\ df[i]["experiment"] = e
    /\ \A j \in 1 .. (i - 1) : df[j]["experiment"] # e

\* Within a group miss_rate is reported before amat.
MetricOrder ==
    \A i, j \in ReportLines :
        (i < j /\ console[i][1] = "wrote" /\ console[j][1] = "wrote"
               /\ ReportExp(i) = ReportExp(j))
            => Index(METRICS, ReportMetric(i)) < Index(METRICS, ReportMetric(j))

\* C8 as claimed: groups are reported in the order in which their tags first
\* appear in the table, all reports of one group before those of the next,
\* miss_rate before amat.
C8_AsClaimed ==
    /\ \A i, j \in ReportLines :
         i < j => FirstRow(ReportExp(i)) <= FirstRow(ReportExp(j))
    /\ MetricOrder

\* C8 as amended: groups are reported in ascending order of their tags
\* (Python's str order), all reports of one group before those of the next,
\* miss_rate before amat.
C8_SortedOrder ==
    /\ \A i, j \in ReportLines :
         i < j => ~ StrLess(ReportExp(j), ReportExp(i))
    /\ MetricOrder
    /\ pc # "start" =>
         /\ Range(experiments) = Tags
         /\ \A a, b \in DOMAIN experiments :
              a < b => StrLess(experiments[a], experiments[b])

\* The run is over; it reported on two groups, the one reported first comes
\* later in the table, and one group has both its charts reported.
C8_Witness ==
    /\ pc = "done"
    /\ \E i, j \in ReportLines :
         /\ i < j
         /\ FirstRow(ReportExp(j)) < FirstRow(ReportExp(i))
    /\ \E i, j \in ReportLines :
         /\ i < j
         /\ console[i][1] = "wrote" /\ console[j][1] = "wrote"
         /\ ReportExp(i) = ReportExp(j)

-----------------------------------------------------------------------------
(* C2: for a group whose axis is policy, the rows handed to the bar chart    *)
(* come with all LRU rows first, then FIFO, then RANDOM, then every row      *)
(* whose policy is outside order, these in their input order and under       *)
(* their original value.                                                     *)

PolicyRank(v) == IF v \in Range(order) THEN Index(order, v) ELSE Len(order) + 1

\* C2: the bars come LRU, FIFO, RANDOM, then the rows with a policy outside
\* order, in input order and under their original value.
C2_CanonicalBarOrder ==
    \A i \in DOMAIN saved :
        saved[i].kind = "bar" =>
            LET d == Group(df, saved[i].title.exp)
                ycol == saved[i].ylabel
                bars == ChartPoints(saved[i])
                unknownIn == SelectSeq(Points(d, "policy", ycol),
                                       LAMBDA pt : pt[1] \notin Range(order))
                unknownOut == SelectSeq(bars, LAMBDA pt : pt[1] \notin Range(order))
            IN  /\ \A a, b \in DOMAIN bars :
                     a < b => PolicyRank(bars[a][1]) <= PolicyRank(bars[b][1])
                /\ unknownOut = unknownIn

-----------------------------------------------------------------------------
(* C3: within one run any two distinct (experiment, metric) pairs get        *)
(* distinct file names, so that no chart saved in a run overwrites another   *)
(* chart saved in the same run.                                              *)

C3_DistinctFileNames ==
    \A i, j \in DOMAIN saved :
        << saved[i].title.exp, saved[i].title.metric >>
              # << saved[j].title.exp, saved[j].title.metric >>
            => /\ saved[i].path # saved[j].path
               /\ outpath(saved[i].title.exp, saved[i].title.metric)
                     # outpath(saved[j].title.exp, saved[j].title.metric)

-----------------------------------------------------------------------------
(* C4: when the run is over, the console holds, for every experiment group   *)
(* and every metric, a line with the path written for the pair or a line     *)
(* with a skip reason that covers it.                                        *)

C4_EveryPairReported ==
    pc = "done" =>
        \A e \in Tags : \A m \in Range(METRICS) :
            \E i \in DOMAIN console :
                \/ console[i] = << "wrote", outpath(e, m) >>
                \/ console[i] = << "skip", e >>
                \/ console[i] = << "skip", e, m >>

-----------------------------------------------------------------------------
(* C9: when the run is over, the image files written are exactly one file    *)
(* per (experiment, metric) pair whose group has a varying candidate and     *)
(* whose metric column is present: one savefig call for each such pair,      *)
(* none for any other pair, one file for each such pair.                     *)

PlottablePairs ==
    { pr \in Tags \X Range(METRICS) : HasAxis(pr[1]) /\ pr[2] \in columns }

Files == { saved[i].path : i \in DOMAIN saved }

\* C9: one savefig call and one file per plottable pair, none for any other.
C9_OneFilePerPair ==
    pc = "done" =>
        /\ \A pr \in Tags \X Range(METRICS) :
             Cardinality({ i \in ChartsOf(pr[1]) : saved[i].title.metric = pr[2] })
                = IF pr \in PlottablePairs THEN 1 ELSE 0
        /\ Cardinality(Files) = Cardinality(PlottablePairs)

-----------------------------------------------------------------------------
(* C10: for a group with the axis policy the bar chart gets exactly one bar  *)
(* per distinct policy value of the group, also when several rows of the     *)
(* group have the same policy value.  (Stated for the groups all of whose    *)
(* policy values are in order.)                                              *)

C10_OneBarPerPolicy ==
    \A i \in DOMAIN saved :
        (saved[i].kind = "bar" /\ \A k \in DOMAIN saved[i].x : saved[i].x[k] \in Range(order)) =>
            /\ Len(saved[i].x) = nunique(Group(df, saved[i].title.exp), "policy")
            /\ \A a, b \in DOMAIN saved[i].x : a # b => saved[i].x[a] # saved[i].x[b]

=============================================================================
